---- MODULE Spec2Model ----
(***************************************************************************)
(* A model of the pmdapi client (src/__init__.py): the PublishMyData       *)
(* session, which authenticates at construction and lists, fetches and     *)
(* creates draftsets, and the Draftset handle with its lifecycle calls     *)
(* (delete, claim, submit_to, publish, append_data).                       *)
(*                                                                         *)
(* Every action is one whole call of a public method.  The remote service  *)
(* is the environment: the status, body, headers and JSON of each response *)
(* are chosen with \E from small sets.  For every call the model keeps the *)
(* arguments (call), the responses received (resps), the requests sent and *)
(* the files opened (log, fileReads) and how the call ended (result).      *)
(*                                                                         *)
(* Spec runs every method, the argument-checking ones on a few arguments   *)
(* each.  SpecListing, SpecCreate, SpecSubmitTo and SpecAppendData start   *)
(* from a state Spec reaches (a session with a token, with or without a    *)
(* Draftset in hand) and run one or two methods on all the arguments and   *)
(* answers listed for them.                                                *)
(*                                                                         *)
(* Python values that matter for truthiness or isinstance are records      *)
(* [t |-> type name, v |-> text].  Byte strings, header values and ids are *)
(* tuples of bytes or characters, so that decoding and splitting are       *)
(* computed and not assumed.                                               *)
(***************************************************************************)
EXTENDS Integers, Sequences, FiniteSets, TLC

VARIABLES
    session,       \* "none": no PublishMyData object; "live": one exists
    access_token,  \* PublishMyData.access_token ("unset" before it is assigned)
    handles,       \* the Draftset objects the caller holds, in order of arrival
    call,          \* the last call: its method, receiver and arguments
    resps,         \* the responses the last call received, in order
    log,           \* the requests the last call sent, in order
    fileReads,     \* how many files the last call opened
    result         \* how the last call ended

vars == <<session, access_token, handles, call, resps, log, fileReads, result>>

---------------------------------------------------------------------------
(* Bounds *)

\* How many Draftset objects the caller keeps.
MaxHandles == 1
\* The longest Location header value, in characters.
MaxLoc == 3
\* The longest list of records a draftsets listing returns.
MaxList == 2

---------------------------------------------------------------------------
(* Python values *)

PyNone == [t |-> "NoneType", v |-> ""]
PyStr(s) == [t |-> "str", v |-> s]
PyBool(b) == [t |-> "bool", v |-> IF b THEN "True" ELSE "False"]
PyInt(s) == [t |-> "int", v |-> s]

\* bool(x), as `or`, `if x:` and `assert x` apply it.
Truthy(x) ==
    CASE x.t = "NoneType" -> FALSE
      [] x.t = "str" -> x.v # ""
      [] x.t = "bool" -> x.v = "True"
      [] x.t = "int" -> x.v # "0"
      [] OTHER -> TRUE

\* x in (s1, s2, ..., None) for a tuple of string literals and None.
InStrsOrNone(x, strs) == x.t = "NoneType" \/ (x.t = "str" /\ x.v \in strs)

\* x in (s1, s2, ...) for a tuple of string literals.
InStrs(x, strs) == x.t = "str" /\ x.v \in strs

---------------------------------------------------------------------------
(* Byte strings and text *)

RECURSIVE SeqsUpTo(_, _)
SeqsUpTo(S, n) ==
    IF n = 0 THEN {<<>>}
    ELSE LET shorter == SeqsUpTo(S, n - 1)
         IN shorter \cup {Append(s, x) : s \in {t \in shorter : Len(t) = n - 1}, x \in S}

\* str(bytes, "utf-8"): strict decoding to code points.  One-byte and two-byte
\* forms are decoded; every other byte is rejected (the bodies below hold no
\* lead byte of a three- or four-byte form).
RECURSIVE Utf8Decode(_)
Utf8Decode(bs) ==
    IF bs = <<>> THEN [ok |-> TRUE, s |-> <<>>]
    ELSE LET b == Head(bs) IN
         IF b < 128
         THEN LET r == Utf8Decode(Tail(bs))
              IN [ok |-> r.ok, s |-> IF r.ok THEN <<b>> \o r.s ELSE <<>>]
         ELSE IF b >= 194 /\ b <= 223 /\ Len(bs) >= 2 /\ bs[2] >= 128 /\ bs[2] <= 191
         THEN LET r == Utf8Decode(Tail(Tail(bs)))
                  cp == (b - 192) * 64 + (bs[2] - 128)
              IN [ok |-> r.ok, s |-> IF r.ok THEN <<cp>> \o r.s ELSE <<>>]
         ELSE [ok |-> FALSE, s |-> <<>>]

\* s.rsplit("/")[-1]: the text after the last "/", the whole text without one.
RECURSIVE RsplitLast(_)
RsplitLast(s) ==
    IF s = <<>> THEN <<>>
    ELSE IF s[Len(s)] = "/" THEN <<>>
    ELSE Append(RsplitLast(SubSeq(s, 1, Len(s) - 1)), s[Len(s)])


---------------------------------------------------------------------------
(* The service's answers *)

Tokens == {"t1", "t2"}

\* Response bodies: ASCII, a two-byte character, and a byte that no UTF-8
\* text holds.
Bodies == {<<102>>, <<195, 169>>, <<255>>}

\* The status the caller sees.  requests follows redirects unless told not
\* to, so 303 is seen only where allow_redirects=False.
FinalStatuses == {200, 202, 403}
RawStatuses == FinalStatuses \cup {303}

ServerIds == {<<"a">>, <<"b">>}
ServerTypes == {"Endpoint", "Draftset", "Unknown"}

\* The JSON object of one draftset.  The client reads eleven keys; id and
\* type are kept here, the other nine are copied into the Draftset the same
\* way as id and are read by no method.
ServerRecords == [id : ServerIds, type : ServerTypes]

\* The records of a listing.
ListedRecords == {r \in ServerRecords : r.id = <<"a">>}

LocChars == {"/", "a"}
Locations == SeqsUpTo(LocChars, MaxLoc)

NoData == [none |-> TRUE]
Response(status, content, data) == [status |-> status, content |-> content, data |-> data]

\* A failure status with each body.
ErrorResponses(statuses) == {Response(s, c, NoData) : s \in statuses, c \in Bodies}

TokenResponses ==
    {Response(200, <<>>, [has_token |-> TRUE, access_token |-> t]) : t \in Tokens}
    \cup {Response(200, <<>>, [has_token |-> FALSE, access_token |-> ""])}
    \cup ErrorResponses(FinalStatuses \ {200})

DraftsetResponses ==
    {Response(200, <<>>, r) : r \in ServerRecords}
    \cup ErrorResponses(FinalStatuses \ {200})

DraftsetsResponses ==
    {Response(200, <<>>, l) : l \in SeqsUpTo(ListedRecords, MaxList)}
    \cup ErrorResponses(FinalStatuses \ {200})

CreateResponses(locations) ==
    {Response(303, <<>>, [has_location |-> TRUE, location |-> l]) : l \in locations}
    \cup {Response(303, <<>>, [has_location |-> FALSE, location |-> <<>>])}
    \cup ErrorResponses(RawStatuses \ {303})

\* An endpoint of which the client reads the status and, unless it is the
\* expected one, the body.
StatusResponses(expected) ==
    {Response(expected, <<>>, NoData)} \cup ErrorResponses(FinalStatuses \ {expected})

\* An endpoint whose answer the client never looks at.
UncheckedResponses == {Response(s, <<>>, NoData) : s \in FinalStatuses}

---------------------------------------------------------------------------
(* Outcomes *)

Return(value, draftsets) ==
    [kind |-> "return", exc |-> "", msg |-> <<>>, value |-> value, draftsets |-> draftsets]
Raise(exc, msg) ==
    [kind |-> "raise", exc |-> exc, msg |-> msg, value |-> "", draftsets |-> <<>>]
NoResult == [kind |-> "", exc |-> "", msg |-> <<>>, value |-> "", draftsets |-> <<>>]

\* raise RequestException(str(response.content, "utf-8")): the decoding runs
\* first and raises in its place when the body is not UTF-8.
RaiseRequestException(resp) ==
    LET d == Utf8Decode(resp.content)
    IN IF d.ok THEN Raise("RequestException", d.s) ELSE Raise("UnicodeDecodeError", <<>>)

---------------------------------------------------------------------------
(* Requests *)

NoId == <<>>

\* One HTTP request: the method, the host ("auth0" for AUTH0_URL, "pmd" for
\* the drafter API, "redirect" for a URL taken from a Location header), the
\* path under /v1/ as resource, id and trailing action, the bearer token of
\* the Authorization header ("" without one), the Content-Type header ("" when
\* the call sets none) and whether the transport sent it on its own while
\* following a redirect.
Request(method, host, resource, id, action, bearer) ==
    [method |-> method, host |-> host, resource |-> resource, id |-> id,
     action |-> action, bearer |-> bearer, content_type |-> "", followed |-> FALSE]

\* The GET that requests issues by itself when it follows a redirect: to the
\* Location URL as it stands.
RedirectGet(location) ==
    [method |-> "GET", host |-> "redirect", resource |-> "", id |-> location,
     action |-> "", bearer |-> "", content_type |-> "", followed |-> TRUE]

\* What goes on the wire for one requests.<method>(...) call that is answered
\* by resp.
Sent(req, allow_redirects, resp) ==
    IF allow_redirects /\ resp.status = 303 /\ resp.data.has_location
    THEN <<req, RedirectGet(resp.data.location)>>
    ELSE <<req>>

---------------------------------------------------------------------------
(* Draftset construction *)

\* Mutant: the type assert is missing.
TypeUnchecked(type) == TRUE

\* Draftset.__post_init__: assert self.type in ("Endpoint", "Draftset")
DraftsetTypeOk(type) == type \in {"Endpoint", "Draftset"}

\* Draftset(_requester=self, id=d["id"], type=d["type"], ...)
DraftsetFields(d) == [id |-> d.id, type |-> d.type]

\* The caller keeps the objects a call returned, as far as it has room.
RECURSIVE Keep(_, _)
Keep(held, new) ==
    IF new = <<>> \/ Len(held) >= MaxHandles THEN held
    ELSE Keep(Append(held, Head(new)), Tail(new))

---------------------------------------------------------------------------
(* PublishMyData *)

\* get_token: how the call ends.
GetTokenResult(resp) ==
    IF resp.status = 200
    THEN IF resp.data.has_token THEN Return("None", <<>>) ELSE Raise("KeyError", <<>>)
    ELSE RaiseRequestException(resp)

\* get_token: self.access_token afterwards.
GetTokenStores(old, resp) ==
    IF resp.status = 200 /\ resp.data.has_token THEN resp.data.access_token ELSE old

TokenRequest ==
    [Request("POST", "auth0", "token", NoId, "", "") EXCEPT !.content_type = "application/json"]

\* Mutant: the constructor swallows the failure of get_token.
ConstructedSessionAlways(res) == "live"

\* The dataclass constructor: __init__ assigns the fields and __post_init__
\* calls get_token; an exception leaves the caller without an object.
ConstructedSession(res) == IF res.kind = "return" THEN "live" ELSE "none"

Construct ==
    /\ session = "none"
    /\ \E resp \in TokenResponses :
          LET res == GetTokenResult(resp) IN
          /\ session' = ConstructedSession(res)
          /\ access_token' = GetTokenStores(access_token, resp)
          /\ call' = [op |-> "__init__", self |-> 0]
          /\ resps' = <<resp>>
          /\ log' = <<TokenRequest>>
          /\ fileReads' = 0
          /\ result' = IF res.kind = "return" THEN Return("PublishMyData", <<>>) ELSE res
          /\ UNCHANGED handles

\* get_token called again on an existing object.
GetToken ==
    /\ session = "live"
    /\ \E resp \in TokenResponses :
          /\ access_token' = GetTokenStores(access_token, resp)
          /\ call' = [op |-> "get_token", self |-> 0]
          /\ resps' = <<resp>>
          /\ log' = <<TokenRequest>>
          /\ fileReads' = 0
          /\ result' = GetTokenResult(resp)
          /\ UNCHANGED <<session, handles>>

\* Mutant: the include assert is missing.
IncludeUnchecked(include) == TRUE

\* assert include in ("owned", "claimable", "all")
IncludeOk(include) == InStrs(include, {"owned", "claimable", "all"})

\* assert isinstance(union_with_live, bool)
IsBool(x) == x.t = "bool"

\* [Draftset(...) for d in data]: every construction has to succeed.
RECURSIVE AllTypesOk(_)
AllTypesOk(data) ==
    data = <<>> \/ (DraftsetTypeOk(Head(data).type) /\ AllTypesOk(Tail(data)))

DraftsetList(data) == [i \in 1..Len(data) |-> DraftsetFields(data[i])]

\* get_draftsets, once its arguments have passed: the requests it sends and
\* how it ends.
GetDraftsetsRun(token, resp) ==
    [log |-> Sent(Request("GET", "pmd", "draftsets", NoId, "", token), TRUE, resp),
     result |-> IF resp.status = 200
                THEN IF AllTypesOk(resp.data)
                     THEN Return("list", DraftsetList(resp.data))
                     ELSE Raise("AssertionError", <<>>)
                ELSE RaiseRequestException(resp)]

\* get_draftset likewise; create_draftset, claim and submit_to call it with
\* union_with_live left at False.
GetDraftsetRun(token, id, resp) ==
    [log |-> Sent(Request("GET", "pmd", "draftset", id, "", token), TRUE, resp),
     result |-> IF resp.status = 200
                THEN IF DraftsetTypeOk(resp.data.type)
                     THEN Return("Draftset", <<DraftsetFields(resp.data)>>)
                     ELSE Raise("AssertionError", <<>>)
                ELSE RaiseRequestException(resp)]

\* A call that stops at an assert, before any request.
Rejected(c) ==
    /\ call' = c
    /\ resps' = <<>>
    /\ log' = <<>>
    /\ fileReads' = 0
    /\ result' = Raise("AssertionError", <<>>)
    /\ UNCHANGED <<session, access_token, handles>>

IncludeValues ==
    {PyStr("owned"), PyStr("claimable"), PyStr("all"), PyStr("mine"), PyStr(""), PyNone}
UnionWithLiveValues == {PyBool(TRUE), PyBool(FALSE), PyStr("yes")}

GetDraftsetsWith(includes, unions) ==
    /\ session = "live"
    /\ \E include \in includes, uwl \in unions :
          LET c == [op |-> "get_draftsets", self |-> 0, include |-> include,
                    union_with_live |-> uwl] IN
          IF ~IncludeOk(include) \/ ~IsBool(uwl)
          THEN Rejected(c)
          ELSE \E resp \in DraftsetsResponses :
                  LET run == GetDraftsetsRun(access_token, resp) IN
                  /\ call' = c
                  /\ resps' = <<resp>>
                  /\ log' = run.log
                  /\ fileReads' = 0
                  /\ result' = run.result
                  /\ handles' = Keep(handles, run.result.draftsets)
                  /\ UNCHANGED <<session, access_token>>

GetDraftsets == GetDraftsetsWith(IncludeValues, UnionWithLiveValues)
GetDraftsetsSome == GetDraftsetsWith({PyStr("all"), PyStr("mine")}, {PyBool(FALSE)})

GetDraftsetWith(ids, unions) ==
    /\ session = "live"
    /\ \E id \in ids, uwl \in unions :
          LET c == [op |-> "get_draftset", self |-> 0, id |-> id, union_with_live |-> uwl] IN
          IF ~IsBool(uwl)
          THEN Rejected(c)
          ELSE \E resp \in DraftsetResponses :
                  LET run == GetDraftsetRun(access_token, id, resp) IN
                  /\ call' = c
                  /\ resps' = <<resp>>
                  /\ log' = run.log
                  /\ fileReads' = 0
                  /\ result' = run.result
                  /\ handles' = Keep(handles, run.result.draftsets)
                  /\ UNCHANGED <<session, access_token>>

GetDraftset == GetDraftsetWith(ServerIds, UnionWithLiveValues)
GetDraftsetSome == GetDraftsetWith(ServerIds, {PyBool(FALSE)})

\* Mutant: allow_redirects left at its default.
FollowRedirects == TRUE

\* create_draftset passes allow_redirects=False.
CreateAllowRedirects == FALSE

\* create_draftset: display_name, description and union_with_live go into the
\* form data unchecked.
CreateDraftsetWith(locations) ==
    /\ session = "live"
    /\ \E resp \in CreateResponses(locations) :
          LET post == Sent(Request("POST", "pmd", "draftsets", NoId, "", access_token),
                           CreateAllowRedirects, resp)
              c == [op |-> "create_draftset", self |-> 0]
          IN
          IF resp.status = 303 /\ resp.data.has_location
          THEN \E resp2 \in DraftsetResponses :
                  LET run == GetDraftsetRun(access_token, RsplitLast(resp.data.location), resp2)
                  IN
                  /\ call' = c
                  /\ resps' = <<resp, resp2>>
                  /\ log' = post \o run.log
                  /\ fileReads' = 0
                  /\ result' = run.result
                  /\ handles' = Keep(handles, run.result.draftsets)
                  /\ UNCHANGED <<session, access_token>>
          ELSE /\ call' = c
               /\ resps' = <<resp>>
               /\ log' = post
               /\ fileReads' = 0
               /\ result' = IF resp.status = 303 THEN Raise("KeyError", <<>>)
                            ELSE RaiseRequestException(resp)
               /\ UNCHANGED <<session, access_token, handles>>

CreateDraftset == CreateDraftsetWith(Locations)
CreateDraftsetSome == CreateDraftsetWith({<<"/", "a">>, <<"a", "/">>})

---------------------------------------------------------------------------
(* Draftset *)

\* Mutant: a method copies the fetched fields into self.
HandlesUpdatedInPlace(held, i, returned) ==
    IF returned = <<>> THEN held ELSE [held EXCEPT ![i] = returned[1]]

\* What the caller holds after a method of handles[i] returned the objects in
\* returned: the methods assign to no field of self.
HandlesAfter(held, i, returned) == Keep(held, returned)

\* delete: metadata goes into the form data unchecked.
Delete ==
    /\ session = "live"
    /\ \E i \in DOMAIN handles, resp \in StatusResponses(202) :
          /\ call' = [op |-> "delete", self |-> i]
          /\ resps' = <<resp>>
          /\ log' = Sent(Request("DELETE", "pmd", "draftset", handles[i].id, "",
                                 access_token), TRUE, resp)
          /\ fileReads' = 0
          /\ result' = IF resp.status = 202 THEN Return("True", <<>>)
                       ELSE RaiseRequestException(resp)
          /\ handles' = HandlesAfter(handles, i, <<>>)
          /\ UNCHANGED <<session, access_token>>

\* The tail that claim and submit_to share: the POST is answered by resp and,
\* on 200, the draftset is fetched again.
PostThenRefetch(c, i, action) ==
    \E resp \in StatusResponses(200) :
       LET post == Sent(Request("POST", "pmd", "draftset", handles[i].id, action,
                                access_token), TRUE, resp)
       IN
       IF resp.status = 200
       THEN \E resp2 \in DraftsetResponses :
               LET run == GetDraftsetRun(access_token, handles[i].id, resp2) IN
               /\ call' = c
               /\ resps' = <<resp, resp2>>
               /\ log' = post \o run.log
               /\ fileReads' = 0
               /\ result' = run.result
               /\ handles' = HandlesAfter(handles, i, run.result.draftsets)
               /\ UNCHANGED <<session, access_token>>
       ELSE /\ call' = c
            /\ resps' = <<resp>>
            /\ log' = post
            /\ fileReads' = 0
            /\ result' = RaiseRequestException(resp)
            /\ handles' = HandlesAfter(handles, i, <<>>)
            /\ UNCHANGED <<session, access_token>>

Claim ==
    /\ session = "live"
    /\ \E i \in DOMAIN handles : PostThenRefetch([op |-> "claim", self |-> i], i, "claim")

RoleValues ==
    {PyNone, PyStr("editor"), PyStr("publisher"), PyStr("manager"), PyStr("admin"), PyStr("")}
UserValues == {PyNone, PyStr(""), PyStr("bob"), PyInt("42")}

\* assert role in ("editor", "publisher", "manager", None)
RoleOk(role) == InStrsOrNone(role, {"editor", "publisher", "manager"})

\* assert isinstance(user, str) or (user is None)
UserOk(user) == user.t = "str" \/ user.t = "NoneType"

\* Mutant: `or` in place of the exclusive or.
AtLeastOne(role, user) == Truthy(role) \/ Truthy(user)

\* assert bool(role) ^ bool(user)
OnlyOne(role, user) == Truthy(role) # Truthy(user)

SubmitToWith(roles, users) ==
    /\ session = "live"
    /\ \E i \in DOMAIN handles, role \in roles, user \in users :
          LET c == [op |-> "submit_to", self |-> i, role |-> role, user |-> user] IN
          IF RoleOk(role) /\ UserOk(user) /\ OnlyOne(role, user)
          THEN PostThenRefetch(c, i, "submit-to")
          ELSE Rejected(c)

SubmitTo == SubmitToWith(RoleValues, UserValues)
SubmitToSome == SubmitToWith({PyNone, PyStr("editor")}, {PyNone, PyStr("bob")})

\* publish: the response is dropped and nothing is returned.
Publish ==
    /\ session = "live"
    /\ \E i \in DOMAIN handles, resp \in UncheckedResponses :
          /\ call' = [op |-> "publish", self |-> i]
          /\ resps' = <<resp>>
          /\ log' = Sent(Request("POST", "pmd", "draftset", handles[i].id, "publish",
                                 access_token), TRUE, resp)
          /\ fileReads' = 0
          /\ result' = Return("None", <<>>)
          /\ handles' = HandlesAfter(handles, i, <<>>)
          /\ UNCHANGED <<session, access_token>>

Extensions == {".trig", ".ttl", ".nq", ".trix", ".nt", ".rdf"}
ContentTypes ==
    {"application/trig", "text/turtle", "application/n-quads", "application/trix",
     "application/n-triples", "application/rdf+xml"}

extension_map ==
    [e \in Extensions |->
        CASE e = ".trig" -> "application/trig"
          [] e = ".ttl" -> "text/turtle"
          [] e = ".nq" -> "application/n-quads"
          [] e = ".trix" -> "application/trix"
          [] e = ".nt" -> "application/n-triples"
          [] e = ".rdf" -> "application/rdf+xml"]

\* assert(extension or content_type)
ExtensionOrContentType(extension, content_type) == Truthy(extension) \/ Truthy(content_type)

\* Mutant: a content_type that is given wins over the extension.
ContentTypeFirst(extension, content_type) ==
    IF Truthy(content_type) THEN content_type ELSE PyStr(extension_map[extension.v])

\* if extension: content_type = extension_map[extension]
ResolvedContentType(extension, content_type) ==
    IF Truthy(extension) THEN PyStr(extension_map[extension.v]) ELSE content_type

\* Mutant: the graph assert is missing.
GraphUnchecked(content_type, graph) == TRUE

\* if content_type in ("text/turtle", "application/trix", "application/n-triples",
\* "application/rdf+xml"): assert graph
GraphOk(content_type, graph) ==
    InStrs(content_type, {"text/turtle", "application/trix", "application/n-triples",
                          "application/rdf+xml"})
        => Truthy(graph)

\* assert content_encoding in ("gzip", "x-gzip", None)
ContentEncodingOk(content_encoding) == InStrsOrNone(content_encoding, {"gzip", "x-gzip"})

\* The asserts of append_data, in the order of the code.
AppendDataArgsOk(extension, content_type, graph, content_encoding) ==
    /\ ExtensionOrContentType(extension, content_type)
    /\ InStrsOrNone(extension, Extensions)
    /\ InStrsOrNone(content_type, ContentTypes)
    /\ GraphOk(ResolvedContentType(extension, content_type), graph)
    /\ ContentEncodingOk(content_encoding)

ExtensionValues == {PyNone, PyStr(""), PyStr(".csv")} \cup {PyStr(e) : e \in Extensions}
ContentTypeValues == {PyNone, PyStr(""), PyStr("text/csv")} \cup {PyStr(c) : c \in ContentTypes}
GraphValues == {PyNone, PyStr(""), PyStr("g")}
ContentEncodingValues == {PyNone, PyStr("gzip"), PyStr("br")}

\* append_data: filepath is only handed to open(), which succeeds (readable)
\* or raises; metadata goes into the query unchecked.
AppendDataWith(extensions, content_types, graphs, content_encodings) ==
    /\ session = "live"
    /\ \E i \in DOMAIN handles, extension \in extensions, content_type \in content_types,
          graph \in graphs, content_encoding \in content_encodings :
          LET c == [op |-> "append_data", self |-> i, extension |-> extension,
                    content_type |-> content_type, graph |-> graph,
                    content_encoding |-> content_encoding]
          IN
          IF ~AppendDataArgsOk(extension, content_type, graph, content_encoding)
          THEN Rejected(c)
          ELSE \E readable \in BOOLEAN :
                  IF ~readable
                  THEN /\ call' = c
                       /\ resps' = <<>>
                       /\ log' = <<>>
                       /\ fileReads' = 1
                       /\ result' = Raise("OSError", <<>>)
                       /\ handles' = HandlesAfter(handles, i, <<>>)
                       /\ UNCHANGED <<session, access_token>>
                  ELSE \E resp \in UncheckedResponses :
                          LET put == [Request("PUT", "pmd", "draftset", handles[i].id,
                                              "data", access_token)
                                      EXCEPT !.content_type =
                                          ResolvedContentType(extension, content_type).v]
                          IN
                          /\ call' = c
                          /\ resps' = <<resp>>
                          /\ log' = Sent(put, TRUE, resp)
                          /\ fileReads' = 1
                          /\ result' = Return("None", <<>>)
                          /\ handles' = HandlesAfter(handles, i, <<>>)
                          /\ UNCHANGED <<session, access_token>>

AppendData ==
    AppendDataWith(ExtensionValues, ContentTypeValues, GraphValues, ContentEncodingValues)
AppendDataSome ==
    AppendDataWith({PyNone, PyStr(".ttl")}, {PyNone, PyStr("application/trig")},
                   {PyNone, PyStr("g")}, {PyNone})

---------------------------------------------------------------------------
(* The specifications *)

Idle ==
    /\ call = [op |-> "", self |-> 0]
    /\ resps = <<>>
    /\ log = <<>>
    /\ fileReads = 0
    /\ result = NoResult

\* Before the first PublishMyData(...).
Init ==
    /\ session = "none"
    /\ access_token = "unset"
    /\ handles = <<>>
    /\ Idle

Next ==
    \/ Construct
    \/ GetToken
    \/ GetDraftsetsSome
    \/ GetDraftsetSome
    \/ CreateDraftsetSome
    \/ Delete
    \/ Claim
    \/ SubmitToSome
    \/ Publish
    \/ AppendDataSome

Spec == Init /\ [][Next]_vars

\* A session after a successful construction, nothing fetched yet.
InitSession ==
    /\ session = "live"
    /\ access_token \in Tokens
    /\ handles = <<>>
    /\ Idle

\* A session and one Draftset obtained from it.
InitDraftset ==
    /\ session = "live"
    /\ access_token = "t1"
    /\ handles = <<DraftsetFields([id |-> <<"a">>, type |-> "Draftset"])>>
    /\ Idle

NextListing == GetDraftsets \/ GetDraftset
SpecListing == InitSession /\ [][NextListing]_vars

NextCreate == CreateDraftset
SpecCreate == InitSession /\ [][NextCreate]_vars

NextSubmitTo == SubmitTo
SpecSubmitTo == InitDraftset /\ [][NextSubmitTo]_vars

NextAppendData == AppendData
SpecAppendData == InitDraftset /\ [][NextAppendData]_vars

---------------------------------------------------------------------------
(* Claims *)

Past(opname) == call.op = opname

\* The requests of the last call that went to the drafter API.
ApiRequests == {k \in DOMAIN log : log[k].host = "pmd"}

C1_State ==
    /\ session = "live" => access_token \in Tokens
    /\ session = "none" => access_token = "unset" /\ handles = <<>>
    /\ (Past("__init__") /\ resps[1].status # 200) => (result.kind = "raise" /\ session = "none")
    /\ \A k \in ApiRequests :
          session = "live" /\ log[k].bearer = access_token /\ log[k].bearer \in Tokens

C1_Step ==
    access_token' # access_token =>
        /\ call'.op \in {"__init__", "get_token"}
        /\ resps'[1].status = 200
        /\ access_token' = resps'[1].data.access_token

\* C1: a PublishMyData object exists only with a token: a token response other
\* than 200 makes the construction raise and leaves no object; access_token
\* changes only to the token of a 200 token response; and every request to the
\* drafter API, from the session or from a Draftset, carries that token.
C1_SessionAuthenticated == [](C1_State) /\ [][C1_Step]_vars

\* C1 witness: a Draftset method has sent its request under the session's token.
C1_Witness ==
    /\ Past("claim")
    /\ Len(log) = 2
    /\ log[1].bearer = access_token
    /\ access_token \in Tokens

\* C2: get_draftsets with an include other than "owned", "claimable" or "all"
\* raises the assertion error and sends nothing; whenever its GET is sent the
\* include was one of the three.
C2_IncludeChecked ==
    Past("get_draftsets") =>
        LET good == call.include.t = "str"
                    /\ call.include.v \in {"owned", "claimable", "all"}
        IN /\ ~good => (result.kind = "raise" /\ result.exc = "AssertionError"
                        /\ log = <<>> /\ resps = <<>>)
           /\ log # <<>> => good

\* C2 witness: an include outside the three was turned down.
C2_Witness ==
    /\ Past("get_draftsets")
    /\ call.include = PyStr("mine")
    /\ call.union_with_live = PyBool(FALSE)
    /\ result.exc = "AssertionError"
    /\ log = <<>>

\* A value counts as supplied when it is given and not empty (Python's bool):
\* user="" is not a supplied user.
Supplied(x) == x.t # "NoneType" /\ x.v # ""

\* C3: submit_to with both role and user supplied, or with neither, raises the
\* assertion error and sends nothing; whenever its POST is sent exactly one of
\* the two was supplied, and a supplied role is editor, publisher or manager.
C3_ExactlyOne ==
    Past("submit_to") =>
        /\ Supplied(call.role) = Supplied(call.user) =>
              (result.kind = "raise" /\ result.exc = "AssertionError" /\ log = <<>>)
        /\ log # <<>> =>
              /\ Supplied(call.role) # Supplied(call.user)
              /\ log[1].method = "POST" /\ log[1].action = "submit-to"
              /\ Supplied(call.role) =>
                    (call.role.t = "str" /\ call.role.v \in {"editor", "publisher", "manager"})

\* C3 witness: role and user both supplied, and the call was turned down.
C3_Witness ==
    /\ Past("submit_to")
    /\ call.role = PyStr("editor")
    /\ call.user = PyStr("bob")
    /\ result.exc = "AssertionError"
    /\ log = <<>>

TripleTypes ==
    {"text/turtle", "application/trix", "application/n-triples", "application/rdf+xml"}
QuadTypes == {"application/trig", "application/n-quads"}

\* extension and content_type each pass their own assert and one is supplied.
C4_WellFormed ==
    /\ InStrsOrNone(call.extension, Extensions)
    /\ InStrsOrNone(call.content_type, ContentTypes)
    /\ Supplied(call.extension) \/ Supplied(call.content_type)

\* The content type the call works with: the extension's when one is supplied.
C4_Resolved ==
    IF Supplied(call.extension) THEN extension_map[call.extension.v] ELSE call.content_type.v

\* C4: append_data whose resolved content type is a triple serialization and
\* which has no graph raises the assertion error with no file opened and no
\* request sent; with a quad serialization, no graph and an accepted
\* content_encoding it passes the asserts, opens the file and, once the file
\* is read, sends the PUT.
C4_GraphForTriples ==
    (Past("append_data") /\ C4_WellFormed) =>
        /\ (C4_Resolved \in TripleTypes /\ ~Supplied(call.graph)) =>
              (result.kind = "raise" /\ result.exc = "AssertionError"
               /\ fileReads = 0 /\ log = <<>>)
        /\ (C4_Resolved \in QuadTypes /\ ~Supplied(call.graph)
            /\ InStrsOrNone(call.content_encoding, {"gzip", "x-gzip"})) =>
              /\ result.exc # "AssertionError"
              /\ fileReads = 1
              /\ result.exc # "OSError" =>
                    (result.kind = "return" /\ Len(log) = 1 /\ log[1].method = "PUT")

\* C4 witness: .ttl without a graph was turned down before the file was opened.
C4_Witness ==
    /\ Past("append_data")
    /\ call.extension = PyStr(".ttl")
    /\ call.content_type = PyNone
    /\ call.graph = PyNone
    /\ result.exc = "AssertionError"
    /\ fileReads = 0

C5_Neither == ~Supplied(call.extension) /\ ~Supplied(call.content_type)

C5_Disagree ==
    /\ Supplied(call.extension)
    /\ Supplied(call.content_type)
    /\ call.extension.v \in Extensions => extension_map[call.extension.v] # call.content_type.v

C5_TurnedDown ==
    result.kind = "raise" /\ result.exc = "AssertionError" /\ fileReads = 0 /\ log = <<>>

\* C5 as stated: append_data with neither extension nor content_type, or with
\* an extension and a content_type that is not the extension's MIME type,
\* raises the assertion error before any file is opened or request sent.
C5_ConsistencyChecked ==
    Past("append_data") => ((C5_Neither \/ C5_Disagree) => C5_TurnedDown)

\* C5 as amended: append_data with neither extension nor content_type raises
\* the assertion error before any file is opened or request sent; an extension
\* and a content_type that each pass their own assert are not compared: with a
\* graph and an accepted content_encoding the call goes on to open the file,
\* and every PUT carries the extension's MIME type when an extension is
\* supplied and the content_type otherwise.
C5_ExtensionOverrides ==
    Past("append_data") =>
        /\ C5_Neither => C5_TurnedDown
        /\ (InStrs(call.extension, Extensions) /\ InStrs(call.content_type, ContentTypes)
            /\ Supplied(call.graph)
            /\ InStrsOrNone(call.content_encoding, {"gzip", "x-gzip"})) =>
              (result.exc # "AssertionError" /\ fileReads = 1)
        /\ \A k \in DOMAIN log : log[k].content_type = C4_Resolved

\* C5 witness: .trig with text/turtle went out as application/trig.
C5_Witness ==
    /\ Past("append_data")
    /\ call.extension = PyStr(".trig")
    /\ call.content_type = PyStr("text/turtle")
    /\ result.kind = "return"
    /\ Len(log) = 1
    /\ log[1].content_type = "application/trig"

\* id is what follows the last "/" of loc (all of loc when it has none).
IsTrailingSegment(id, loc) ==
    /\ \A k \in DOMAIN id : id[k] # "/"
    /\ \E n \in 0..Len(loc) :
          /\ SubSeq(loc, n + 1, Len(loc)) = id
          /\ n = 0 \/ loc[n] = "/"

Gets == {k \in DOMAIN log : log[k].method = "GET"}

\* The 303 half of C6: after a 303 with a Location there is exactly one GET,
\* sent by the client itself to /v1/draftset/{id} with id the trailing segment
\* of the Location, and no request goes to the Location URL.
C6_FollowUp ==
    Past("create_draftset") =>
        /\ (resps[1].status = 303 /\ resps[1].data.has_location) =>
              /\ Cardinality(Gets) = 1
              /\ \A k \in Gets :
                    /\ log[k].host = "pmd" /\ log[k].resource = "draftset"
                    /\ log[k].action = "" /\ ~log[k].followed
                    /\ IsTrailingSegment(log[k].id, resps[1].data.location)
        /\ \A k \in DOMAIN log : log[k].host # "redirect"
        /\ resps[1].status # 303 => (result.kind = "raise" /\ Gets = {})

\* C6 as stated: create_draftset on a 303 sends exactly one follow-up GET, to
\* /v1/draftset/{id} with id the trailing segment of the Location, and none to
\* the redirect URL; on any other status it raises RequestException and sends
\* no GET.
C6_CreateFollowUp ==
    /\ C6_FollowUp
    /\ (Past("create_draftset") /\ resps[1].status # 303) => result.exc = "RequestException"

\* C10 as stated: create_draftset either returns the re-fetched Draftset or
\* raises with nothing created: it never raises after the service answered
\* the creation with 303 and the Location of the new draftset.
C10_NoPartialSuccess ==
    Past("create_draftset") =>
        /\ result.kind = "return" =>
              (resps[1].status = 303 /\ result.value = "Draftset"
               /\ result.draftsets = <<DraftsetFields(resps[2].data)>>)
        /\ result.kind = "raise" => ~(resps[1].status = 303 /\ resps[1].data.has_location)

\* The text whose UTF-8 encoding is bs, for code points below 2048.
RECURSIVE Utf8Encode(_)
Utf8Encode(cps) ==
    IF cps = <<>> THEN <<>>
    ELSE LET c == Head(cps) IN
         (IF c < 128 THEN <<c>> ELSE <<192 + (c \div 64), 128 + (c % 64)>>)
             \o Utf8Encode(Tail(cps))

\* C7 as stated: delete returns True exactly on 202; on every other status it
\* raises RequestException with the response body as its message; it never
\* returns anything but True.
C7_DeleteTrueOrError ==
    Past("delete") =>
        /\ result.kind = "return" <=> resps[1].status = 202
        /\ result.kind = "return" => result.value = "True"
        /\ resps[1].status # 202 =>
              (result.exc = "RequestException" /\ Utf8Encode(result.msg) = resps[1].content)

Lifecycle == {"claim", "submit_to", "publish", "delete", "append_data"}

\* The Draftset returned is the one built from the answer to a GET of
\* /v1/draftset/{self.id} that followed a POST answered with 200.
C8_Refetched ==
    /\ result.value = "Draftset"
    /\ Len(log) = 2 /\ Len(resps) = 2
    /\ log[1].method = "POST" /\ resps[1].status = 200
    /\ log[2].method = "GET" /\ log[2].resource = "draftset" /\ log[2].action = ""
    /\ log[2].id = handles[call.self].id
    /\ resps[2].status = 200
    /\ result.draftsets = <<DraftsetFields(resps[2].data)>>

\* No Draftset the caller holds changes.
C8_Immutable == \A i \in DOMAIN handles : i \in DOMAIN handles' /\ handles'[i] = handles[i]

C8_OriginalState ==
    (call.op \in Lifecycle /\ log # <<>>) =>
        /\ result.kind = "return" => C8_Refetched
        /\ (call.op \in {"claim", "submit_to"} /\ resps[1].status # 200) =>
              (result.exc = "RequestException" /\ Gets = {})

C8_AmendedState ==
    /\ (call.op \in {"claim", "submit_to"} /\ log # <<>>) =>
          /\ result.kind = "return" => C8_Refetched
          /\ resps[1].status = 200 =>
                (Len(log) = 2 /\ log[2].method = "GET" /\ log[2].id = handles[call.self].id)
          /\ resps[1].status # 200 => (result.kind = "raise" /\ Len(log) = 1 /\ Gets = {})
    /\ Past("publish") => (result = Return("None", <<>>) /\ Gets = {})
    /\ Past("append_data") => ((result.kind = "return" => result.value = "None") /\ Gets = {})
    /\ Past("delete") => ((result.kind = "return" => result.value = "True") /\ Gets = {})

ValidTypes == {"Endpoint", "Draftset"}

\* C9: every Draftset held or returned has type Endpoint or Draftset;
\* get_draftset raises on a 200 record of another type, and get_draftsets
\* raises, returning no list, when any record of the 200 answer has one.
C9_TypeEnforced ==
    /\ \A i \in DOMAIN handles : handles[i].type \in ValidTypes
    /\ \A i \in DOMAIN result.draftsets : result.draftsets[i].type \in ValidTypes
    /\ (Past("get_draftset") /\ resps # <<>> /\ resps[1].status = 200
        /\ resps[1].data.type \notin ValidTypes) =>
          (result.kind = "raise" /\ result.draftsets = <<>>)
    /\ (Past("get_draftsets") /\ resps # <<>> /\ resps[1].status = 200
        /\ \E k \in DOMAIN resps[1].data : resps[1].data[k].type \notin ValidTypes) =>
          (result.kind = "raise" /\ result.draftsets = <<>>)

\* C9 witness: a listing of a valid and an invalid record was turned down whole.
C9_Witness ==
    /\ Past("get_draftsets")
    /\ resps # <<>>
    /\ resps[1].status = 200
    /\ Len(resps[1].data) = 2
    /\ resps[1].data[1].type = "Draftset"
    /\ resps[1].data[2].type = "Unknown"
    /\ result.kind = "raise"
    /\ result.draftsets = <<>>

====
